---- MODULE Spec2Model ----
(***************************************************************************)
(* A model of the tax computation engine (taxes.py) and of the ledger      *)
(* query collaborator (utils.py).                                          *)
(*                                                                         *)
(* Money amounts and rates are Python floats in the source.  They are      *)
(* modelled as exact rationals [n |-> numerator, d |-> denominator > 0] in *)
(* lowest terms, so that 0.038, 0.9235, 0.19732 ... keep their value.      *)
(***************************************************************************)
EXTENDS Integers, Sequences, FiniteSets, TLC

VARIABLES
    brackets,     \* the bracket table handed to compute_bracket_tax
    surcharges,   \* the surcharge rules handed to compute_surcharges
    personal,     \* hledger_parameters/personal.yaml, as loaded by yaml.safe_load
    federal,      \* load_tax_params(year)['federal']: filing status -> entry
    cache,        \* the pickled dict in CACHE_FILE: journal hash -> cache key -> result
    journal,      \* hash_journal_dir(JOURNAL_DIR): the fingerprint of the journal files
    call,         \* the last call made: its function, arguments and outcome
    ca,           \* load_tax_params(year)['ca']: filing status -> entry
    pc,           \* where the running compute_taxes is: "idle", "query", "summary",
                  \* "done" (the summary is printed) or "aborted" (it raised)
    locals,       \* the local variables of the running compute_taxes
    report,       \* the last summary printed
    failures      \* how many ledger commands failed so far

vars == <<brackets, surcharges, personal, federal, cache, journal, call,
          ca, pc, locals, report, failures>>

\* The parameter and configuration files.
config == <<brackets, surcharges, personal, federal, ca>>

\* compute_taxes, as a process.
process == <<pc, locals, report, failures>>

\* compute_taxes is not running and never ran.
NotStarted ==
    /\ pc = "idle"
    /\ locals = << >>
    /\ report = << >>
    /\ failures = 0

\* The journal directory and the query cache.
store == <<cache, journal>>

----------------------------------------------------------------------------
(* Float arithmetic, as exact rationals.                                   *)

Abs(x) == IF x < 0 THEN -x ELSE x

RECURSIVE GCD(_, _)
GCD(a, b) == IF b = 0 THEN a ELSE GCD(b, a % b)

\* The float n/d.
Frac(n, d) ==
    LET g == GCD(Abs(n), Abs(d))
        s == IF d < 0 THEN -1 ELSE 1
    IN  [n |-> s * (n \div g), d |-> s * (d \div g)]

\* The float of an int.
Num(n) == [n |-> n, d |-> 1]

Zero == Num(0)

\* x = Floor(x) + Rem(x) / x.d, with 0 <= Rem(x) < x.d
Floor(x) == x.n \div x.d
Rem(x) == x.n % x.d

\* x + y
Plus(x, y) ==
    LET g == GCD(x.d, y.d)
        l == (x.d \div g) * y.d
    IN  Frac((Floor(x) + Floor(y)) * l + Rem(x) * (l \div x.d) + Rem(y) * (l \div y.d), l)

\* -x
Neg(x) == [n |-> -x.n, d |-> x.d]

\* x - y
Minus(x, y) == Plus(x, Neg(y))

\* x * y
Times(x, y) ==
    LET g1 == GCD(Abs(x.n), y.d)
        g2 == GCD(Abs(y.n), x.d)
    IN  Frac((x.n \div g1) * (y.n \div g2), (x.d \div g2) * (y.d \div g1))

\* x / y, y # 0
Over(x, y) == Times(x, Frac(y.d, y.n))

\* x < y
Less(x, y) ==
    IF Floor(x) # Floor(y) THEN Floor(x) < Floor(y) ELSE Rem(x) * y.d < Rem(y) * x.d

\* x <= y
LessEq(x, y) == ~Less(y, x)

\* max(x, y): Python returns the first argument unless the second is larger
Max2(x, y) == IF Less(x, y) THEN y ELSE x

\* min(x, y): Python returns the first argument unless the second is smaller
Min2(x, y) == IF Less(y, x) THEN y ELSE x

----------------------------------------------------------------------------
(* Python values read from YAML, and dict access.                          *)

None == [t |-> "none"]
PyStr(s) == [t |-> "str", s |-> s]
PyNum(x) == [t |-> "num", x |-> x]
PyBool(b) == [t |-> "bool", b |-> b]
PyList(items) == [t |-> "list", items |-> items]

\* d.get(key, default)
Get(d, key, default) == IF key \in DOMAIN d THEN d[key] ELSE default

\* A dict holding the given optional fields: each field is <<>> (key absent)
\* or <<value>>.
Dict(fields) ==
    [k \in {key \in DOMAIN fields : fields[key] # <<>>} |-> fields[k][1]]

\* The sequences over S of length at most n.
SeqsUpTo(S, n) == UNION {[1..k -> S] : k \in 0..n}

\* What a function returned, or what it raised.
Returned(v) == [kind |-> "value", v |-> v]
Raised(exc) == [kind |-> "error", exc |-> exc]

NoCall == [fn |-> "none"]

----------------------------------------------------------------------------
(* compute_bracket_tax                                                     *)

\* Mutant: a bracket below the top one is taxed only when the income lies inside it.
bracket_step_only_containing(taxable_income, brks, i, tax) ==
    LET threshold == brks[i].threshold
        rate == brks[i].rate
    IN  IF i = Len(brks)
        THEN IF Less(threshold, taxable_income)
             THEN Plus(tax, Times(Minus(taxable_income, threshold), rate))
             ELSE tax
        ELSE LET next_threshold == brks[i + 1].threshold
             IN  IF Less(threshold, taxable_income) /\ LessEq(taxable_income, next_threshold)
                 THEN Plus(tax, Times(Minus(Min2(taxable_income, next_threshold), threshold), rate))
                 ELSE tax

\* One pass of the loop body, for the bracket at (1-based) index i: the tax
\* accumulated so far plus what that bracket adds.
bracket_step(taxable_income, brks, i, tax) ==
    LET threshold == brks[i].threshold
        rate == brks[i].rate
    IN  IF i = Len(brks)
        THEN IF Less(threshold, taxable_income)
             THEN Plus(tax, Times(Minus(taxable_income, threshold), rate))
             ELSE Plus(tax, Zero)
        ELSE LET next_threshold == brks[i + 1].threshold
             IN  IF Less(threshold, taxable_income)
                 THEN Plus(tax, Times(Minus(Min2(taxable_income, next_threshold), threshold), rate))
                 ELSE tax

RECURSIVE bracket_loop(_, _, _, _)
bracket_loop(taxable_income, brks, i, tax) ==
    IF i > Len(brks)
    THEN tax
    ELSE bracket_loop(taxable_income, brks, i + 1,
                      bracket_step(taxable_income, brks, i, tax))

\* Mutant: the loop runs over brackets[:-1], so the top bracket is lost.
compute_bracket_tax_drop_last(taxable_income, brks) ==
    Max2(bracket_loop(taxable_income, SubSeq(brks, 1, Len(brks) - 1), 1, Zero), Zero)

compute_bracket_tax(taxable_income, brks) ==
    Max2(bracket_loop(taxable_income, brks, 1, Zero), Zero)

----------------------------------------------------------------------------
(* Bracket tables and incomes the calculator is applied to.                *)

MaxBrackets == 3

BracketThresholds == {Num(0), Num(5000), Num(10000)}
BracketRates == {Zero, Frac(1, 10), Frac(1, 5)}
BracketIncomes ==
    {Num(-5000), Zero, Num(5000), Num(10000), Num(12500), Num(15000)}

TaxBracket == [threshold : BracketThresholds, rate : BracketRates]

\* "sorted ascending" (docstring of compute_bracket_tax)
Ascending(brks) ==
    \A i \in 1..(Len(brks) - 1) : LessEq(brks[i].threshold, brks[i + 1].threshold)

BracketTables == {b \in SeqsUpTo(TaxBracket, MaxBrackets) : Ascending(b)}

----------------------------------------------------------------------------
(* compute_surcharges (nested in compute_taxes)                            *)

\* "surcharges or []"
surcharges_or_empty(rules) ==
    IF rules.t = "list" /\ rules.items # << >> THEN rules.items ELSE << >>

\* The loop body: total += rate * max(taxable_income - threshold, 0.0)
surcharge_step(taxable_income, s, total) ==
    LET threshold == Get(s, "threshold", Zero)
        rate == Get(s, "rate", Zero)
    IN  Plus(total, Times(rate, Max2(Minus(taxable_income, threshold), Zero)))

RECURSIVE surcharge_loop(_, _, _, _)
surcharge_loop(taxable_income, items, i, total) ==
    IF i > Len(items)
    THEN total
    ELSE surcharge_loop(taxable_income, items, i + 1,
                        surcharge_step(taxable_income, items[i], total))

\* Mutant: every rule is charged on what is left above the highest threshold seen
\* so far (rules made marginal, like brackets).
RECURSIVE surcharge_loop_marginal(_, _, _, _)
surcharge_loop_marginal(taxable_income, items, i, total) ==
    IF i > Len(items)
    THEN total
    ELSE LET threshold == Get(items[i], "threshold", Zero)
             floor == IF i > 1
                      THEN Max2(threshold, Get(items[i - 1], "threshold", Zero))
                      ELSE threshold
         IN  surcharge_loop_marginal(taxable_income, items, i + 1,
                 Plus(total, Times(Get(items[i], "rate", Zero),
                                   Max2(Minus(taxable_income, floor), Zero))))

compute_surcharges_marginal(taxable_income, rules) ==
    surcharge_loop_marginal(taxable_income, surcharges_or_empty(rules), 1, Zero)

compute_surcharges(taxable_income, rules) ==
    surcharge_loop(taxable_income, surcharges_or_empty(rules), 1, Zero)

----------------------------------------------------------------------------
(* Surcharge rules and incomes the calculator is applied to.               *)

MaxRules == 2

SurchargeThresholds == {<< >>, <<Num(250000)>>, <<Num(1000000)>>}
SurchargeRates == {<< >>, <<Frac(1, 100)>>, <<Frac(1, 20)>>}
SurchargeIncomes ==
    {Num(-1000), Zero, Num(250000), Num(999999), Num(1000000), Num(1500000)}

Surcharge ==
    {Dict([threshold |-> t, rate |-> r]) : t \in SurchargeThresholds, r \in SurchargeRates}

SurchargeLists == {None} \cup {PyList(l) : l \in SeqsUpTo(Surcharge, MaxRules)}

InitBracket ==
    /\ brackets \in BracketTables
    /\ surcharges = None
    /\ personal = << >>
    /\ federal = << >>
    /\ cache = << >>
    /\ journal = 1
    /\ call = NoCall
    /\ ca = << >>
    /\ NotStarted

CallBracketTax(taxable_income) ==
    /\ call' = [fn |-> "compute_bracket_tax",
                taxable_income |-> taxable_income,
                ret |-> Returned(compute_bracket_tax(taxable_income, brackets))]
    /\ UNCHANGED <<config, store, process>>

InitSurcharge ==
    /\ brackets = << >>
    /\ surcharges \in SurchargeLists
    /\ personal = << >>
    /\ federal = << >>
    /\ cache = << >>
    /\ journal = 1
    /\ call = NoCall
    /\ ca = << >>
    /\ NotStarted

CallSurcharges(taxable_income) ==
    /\ call' = [fn |-> "compute_surcharges",
                taxable_income |-> taxable_income,
                ret |-> Returned(compute_surcharges(taxable_income, surcharges))]
    /\ UNCHANGED <<config, store, process>>

InitTables == InitBracket \/ InitSurcharge

NextTables ==
    \/ \E taxable_income \in BracketIncomes : CallBracketTax(taxable_income)
    \/ \E taxable_income \in SurchargeIncomes : CallSurcharges(taxable_income)

\* The two table-driven calculators, applied to any table and any income.
SpecTables == InitTables /\ [][NextTables]_vars

----------------------------------------------------------------------------
(* Filing status and the federal parameter entry, as each place resolves   *)
(* them.                                                                   *)

\* The fallback every place applies to the status it read: the entry of that
\* status, else the "joint" entry, else ValueError.
entry_or_joint(fed, filing_status) ==
    LET fed_params == Get(fed, filing_status, None)
        fallback == IF fed_params = None THEN Get(fed, "joint", None) ELSE fed_params
    IN  IF fallback = None THEN Raised("ValueError") ELSE Returned(fallback)

\* compute_investment_tax: params.get("filing_status", "joint"), then the fallback
resolve_in_investment_tax(pers, fed) ==
    entry_or_joint(fed, Get(pers, "filing_status", "joint"))

\* compute_medicare_tax: params.get("filing_status", "single"), then the fallback
resolve_in_medicare_tax(pers, fed) ==
    entry_or_joint(fed, Get(pers, "filing_status", "single"))

\* load_filing_status(): .get("filing_status", "joint")
load_filing_status(pers) == Get(pers, "filing_status", "joint")

\* compute_taxes: load_filing_status(), then the fallback
resolve_in_compute_taxes(pers, fed) ==
    entry_or_joint(fed, load_filing_status(pers))

----------------------------------------------------------------------------
(* compute_investment_tax                                                  *)

DefaultNiitThreshold == 200000
NiitRate == Frac(38, 1000)

\* Mutant: the tax is charged on the investment income alone.
investment_tax_on_investment_income(investment_income, agi, niit_threshold) ==
    IF LessEq(agi, niit_threshold)
    THEN Zero
    ELSE Times(NiitRate, Max2(investment_income, Zero))

\* The arithmetic after the threshold is known.
investment_tax_amount(investment_income, agi, niit_threshold) ==
    IF LessEq(agi, niit_threshold)
    THEN Zero
    ELSE LET taxable_amount == Min2(investment_income, Minus(agi, niit_threshold))
         IN  Times(NiitRate, Max2(taxable_amount, Zero))

compute_investment_tax(investment_income, agi, pers, fed) ==
    LET fed_params == resolve_in_investment_tax(pers, fed)
    IN  IF fed_params.kind = "error"
        THEN fed_params
        ELSE Returned(investment_tax_amount(investment_income, agi,
                 Get(fed_params.v, "niit_threshold", Num(DefaultNiitThreshold))))

----------------------------------------------------------------------------
(* compute_medicare_tax                                                    *)

DefaultMedicareThreshold == 200000
MedicareRate == Frac(145, 10000)
AdditionalMedicareRate == Frac(9, 1000)
SelfEmploymentShare == Frac(9235, 10000)

\* Mutant: the amount already paid is subtracted without the floor at 0.
medicare_tax_amount_unfloored(w2_medicare, net_business_income, med_tax_paid, threshold) ==
    LET medicare_tax == Times(MedicareRate, w2_medicare)
        medicare_extra ==
            Times(Max2(Zero, Minus(Plus(w2_medicare,
                                        Times(net_business_income, SelfEmploymentShare)),
                                   threshold)),
                  AdditionalMedicareRate)
        total == Plus(medicare_tax, medicare_extra)
    IN  Minus(total, med_tax_paid)

\* The arithmetic after the threshold is known.
medicare_tax_amount(w2_medicare, net_business_income, med_tax_paid, threshold) ==
    LET medicare_tax == Times(MedicareRate, w2_medicare)
        medicare_extra ==
            Times(Max2(Zero, Minus(Plus(w2_medicare,
                                        Times(net_business_income, SelfEmploymentShare)),
                                   threshold)),
                  AdditionalMedicareRate)
        total == Plus(medicare_tax, medicare_extra)
    IN  Max2(Minus(total, med_tax_paid), Zero)

compute_medicare_tax(w2_medicare, net_business_income, med_tax_paid, pers, fed) ==
    LET fed_params == resolve_in_medicare_tax(pers, fed)
    IN  IF fed_params.kind = "error"
        THEN fed_params
        ELSE Returned(medicare_tax_amount(w2_medicare, net_business_income, med_tax_paid,
                 Get(fed_params.v, "medicare_threshold", Num(DefaultMedicareThreshold))))

----------------------------------------------------------------------------
(* Personal configurations, federal tables and amounts for the calculators *)
(* that read the federal entry.                                            *)

FilingStatuses == {<< >>, <<"single">>, <<"joint">>, <<"head_of_household">>}

PersonalFiling == {Dict([filing_status |-> f]) : f \in FilingStatuses}

ThresholdOptions == {<< >>, <<Num(250000)>>}

FederalEntry ==
    {Dict([niit_threshold |-> n, medicare_threshold |-> m]) :
        n \in ThresholdOptions, m \in ThresholdOptions}

FederalTables ==
    {Dict([single |-> s, joint |-> j]) :
        s \in {<< >>} \cup {<<e>> : e \in FederalEntry},
        j \in {<< >>} \cup {<<e>> : e \in FederalEntry}}

InvestmentIncomes == {Num(-1000), Zero, Num(1), Num(50000), Num(100000)}
AGIs == {Num(100000), Num(200000), Num(200001), Num(250000), Num(250001), Num(300000)}

MedicareWages == {Zero, Num(100000), Num(300000)}
NetBusinessIncomes == {Num(-20000), Zero, Num(20000)}
MedicarePaid == {Zero, Num(1450), Num(10000)}

InitFederal ==
    /\ brackets = << >>
    /\ surcharges = None
    /\ personal \in PersonalFiling
    /\ federal \in FederalTables
    /\ cache = << >>
    /\ journal = 1
    /\ call = NoCall
    /\ ca = << >>
    /\ NotStarted

CallInvestmentTax(investment_income, agi) ==
    /\ call' = [fn |-> "compute_investment_tax",
                investment_income |-> investment_income,
                agi |-> agi,
                fed_params |-> resolve_in_investment_tax(personal, federal),
                ret |-> compute_investment_tax(investment_income, agi, personal, federal)]
    /\ UNCHANGED <<config, store, process>>

CallMedicareTax(w2_medicare, net_business_income, med_tax_paid) ==
    /\ call' = [fn |-> "compute_medicare_tax",
                w2_medicare |-> w2_medicare,
                net_business_income |-> net_business_income,
                med_tax_paid |-> med_tax_paid,
                fed_params |-> resolve_in_medicare_tax(personal, federal),
                ret |-> compute_medicare_tax(w2_medicare, net_business_income,
                                             med_tax_paid, personal, federal)]
    /\ UNCHANGED <<config, store, process>>

\* The first step of compute_taxes: the federal entry it goes on to use.
ComputeTaxesSelectsEntry ==
    /\ call' = [fn |-> "compute_taxes",
                fed_params |-> resolve_in_compute_taxes(personal, federal)]
    /\ UNCHANGED <<config, store, process>>

NextFederal ==
    \/ \E investment_income \in InvestmentIncomes, agi \in AGIs :
           CallInvestmentTax(investment_income, agi)
    \/ \E w2_medicare \in MedicareWages, net_business_income \in NetBusinessIncomes,
          med_tax_paid \in MedicarePaid :
           CallMedicareTax(w2_medicare, net_business_income, med_tax_paid)
    \/ ComputeTaxesSelectsEntry

\* The places that read the filing status and the federal entry, under any
\* personal configuration and any federal table.
SpecFederal == InitFederal /\ [][NextFederal]_vars

----------------------------------------------------------------------------
(* compute_solo_401k_contribution                                          *)

MaxContributionRate == Frac(19732, 100000)

\* v == "text"
py_eq_str(v, text) == v.t = "str" /\ v.s = text

\* v == 0: true of 0, 0.0 and False
py_eq_zero(v) ==
    \/ v.t = "num" /\ v.x = Zero
    \/ v.t = "bool" /\ ~v.b

\* isinstance(v, (int, float)): bool is a subclass of int
is_int_or_float(v) == v.t \in {"num", "bool"}

\* float(v) of an int, float or bool
py_float(v) == IF v.t = "bool" THEN (IF v.b THEN Num(1) ELSE Zero) ELSE v.x

\* Mutant: the configured number is used as a fraction, not as a percentage.
compute_solo_401k_contribution_fraction(net_business_income, pers) ==
    LET contribution_config == Get(pers, "solo_401k_contribution", PyStr("maximize"))
        max_contribution == Times(net_business_income, MaxContributionRate)
    IN  IF py_eq_str(contribution_config, "maximize") THEN max_contribution
        ELSE IF py_eq_str(contribution_config, "none") \/ py_eq_zero(contribution_config)
             THEN Zero
        ELSE IF is_int_or_float(contribution_config)
             THEN Times(max_contribution, py_float(contribution_config))
        ELSE max_contribution

compute_solo_401k_contribution(net_business_income, pers) ==
    LET contribution_config == Get(pers, "solo_401k_contribution", PyStr("maximize"))
        max_contribution == Times(net_business_income, MaxContributionRate)
    IN  IF py_eq_str(contribution_config, "maximize") THEN max_contribution
        ELSE IF py_eq_str(contribution_config, "none") \/ py_eq_zero(contribution_config)
             THEN Zero
        ELSE IF is_int_or_float(contribution_config)
             THEN LET percentage == Over(py_float(contribution_config), Num(100))
                  IN  Times(max_contribution, percentage)
        ELSE max_contribution

----------------------------------------------------------------------------
(* compute_social_security_tax                                             *)

SocialSecurityRate == Frac(124, 1000)

\* Mutant: the amount still owed is returned with its own sign.
compute_social_security_tax_owed(w2_medicare, net_business_income, ss_max, soc_tax_paid, pers) ==
    LET filing_status == Get(pers, "filing_status", "joint")
        cap == IF filing_status = "joint" THEN Times(ss_max, Num(2)) ELSE ss_max
        w2_ss_tax == Min2(Times(w2_medicare, SocialSecurityRate), cap)
        remaining_ss_limit == Max2(Zero, Minus(cap, w2_ss_tax))
        se_ss_tax == Min2(Times(Times(net_business_income, SelfEmploymentShare),
                                SocialSecurityRate),
                          remaining_ss_limit)
        total_ss_tax_owed == Plus(w2_ss_tax, se_ss_tax)
    IN  Minus(total_ss_tax_owed, soc_tax_paid)

compute_social_security_tax(w2_medicare, net_business_income, ss_max, soc_tax_paid, pers) ==
    LET filing_status == Get(pers, "filing_status", "joint")
        cap == IF filing_status = "joint" THEN Times(ss_max, Num(2)) ELSE ss_max
        w2_ss_tax == Min2(Times(w2_medicare, SocialSecurityRate), cap)
        remaining_ss_limit == Max2(Zero, Minus(cap, w2_ss_tax))
        se_ss_tax == Min2(Times(Times(net_business_income, SelfEmploymentShare),
                                SocialSecurityRate),
                          remaining_ss_limit)
        total_ss_tax_owed == Plus(w2_ss_tax, se_ss_tax)
        ss_extra == Minus(total_ss_tax_owed, soc_tax_paid)
    IN  Neg(ss_extra)

----------------------------------------------------------------------------
(* Personal configurations and amounts for the calculators that read only  *)
(* personal.yaml.                                                          *)

ContributionPolicies ==
    {<< >>, <<None>>, <<PyList(<< >>)>>,
     <<PyStr("maximize")>>, <<PyStr("none")>>, <<PyStr("half")>>,
     <<PyBool(TRUE)>>, <<PyBool(FALSE)>>,
     <<PyNum(Zero)>>, <<PyNum(Num(50))>>, <<PyNum(Num(100))>>,
     <<PyNum(Frac(25, 2))>>, <<PyNum(Num(150))>>, <<PyNum(Num(-10))>>}

PersonalConfigs ==
    {Dict([filing_status |-> f, solo_401k_contribution |-> c]) :
        f \in FilingStatuses, c \in ContributionPolicies}

SoloIncomes == {Num(-10000), Zero, Num(1000), Num(50000), Num(100000)}

SSWages == {Zero, Num(100000), Num(200000)}
SSBusinessIncomes == {Num(-20000), Zero, Num(50000), Num(100000)}
SSMax == {Num(10000), Num(15000)}
SSPaid == {Zero, Num(12400), Num(30000)}

InitPersonal ==
    /\ brackets = << >>
    /\ surcharges = None
    /\ personal \in PersonalConfigs
    /\ federal = << >>
    /\ cache = << >>
    /\ journal = 1
    /\ call = NoCall
    /\ ca = << >>
    /\ NotStarted

CallSolo401k(net_business_income) ==
    /\ call' = [fn |-> "compute_solo_401k_contribution",
                net_business_income |-> net_business_income,
                ret |-> Returned(compute_solo_401k_contribution(net_business_income,
                                                                personal))]
    /\ UNCHANGED <<config, store, process>>

CallSocialSecurityTax(w2_medicare, net_business_income, ss_max, soc_tax_paid) ==
    /\ call' = [fn |-> "compute_social_security_tax",
                w2_medicare |-> w2_medicare,
                net_business_income |-> net_business_income,
                ss_max |-> ss_max,
                soc_tax_paid |-> soc_tax_paid,
                ret |-> Returned(compute_social_security_tax(w2_medicare,
                            net_business_income, ss_max, soc_tax_paid, personal))]
    /\ UNCHANGED <<config, store, process>>

NextPersonal ==
    \/ \E net_business_income \in SoloIncomes : CallSolo401k(net_business_income)
    \/ \E w2_medicare \in SSWages, net_business_income \in SSBusinessIncomes,
          ss_max \in SSMax, soc_tax_paid \in SSPaid :
           CallSocialSecurityTax(w2_medicare, net_business_income, ss_max, soc_tax_paid)

\* The calculators that read only the personal configuration.
SpecPersonal == InitPersonal /\ [][NextPersonal]_vars

----------------------------------------------------------------------------
(* utils.py: the ledger query and its cache.                               *)

Digit == <<"0", "1", "2", "3", "4", "5", "6", "7", "8", "9">>

\* str(n) of an int n >= 0
RECURSIVE Str(_)
Str(n) == IF n < 10 THEN Digit[n + 1] ELSE Str(n \div 10) \o Digit[(n % 10) + 1]

\* A whitespace-separated token of hledger's output: its text, and what
\* float(text.replace('$', '').replace(',', '')) makes of it: <<x>>, or << >> when
\* it raises ValueError.
Token(text, float) == [text |-> text, float |-> float]

\* parse_hledger_output: stdout is the sequence of the non-blank lines of
\* output.strip(), each the sequence of its tokens.
parse_hledger_output(stdout) ==
    IF stdout = << >>
    THEN Zero
    ELSE LET last_line == stdout[Len(stdout)]
             total_str == last_line[1]
         IN  IF total_str.float # << >>
             THEN LET x == total_str.float[1] IN [n |-> Abs(x.n), d |-> x.d]
             ELSE Zero

\* What subprocess.run(cmd, check=True) does: CalledProcessError on a non-zero
\* exit, else the captured stdout.
Exited(code) == [exit |-> code, stdout |-> << >>]
Printed(stdout) == [exit |-> 0, stdout |-> stdout]

\* cache_key = (tuple(args), year); year is << >> for None
cache_key(args, year) == [args |-> args, year |-> year]

\* The command line.
hledger_cmd(args, year) ==
    <<"hledger", "bal">>
        \o (IF year # << >> THEN <<"-p", Str(year[1])>> ELSE << >>)
        \o args \o <<"-1">>

\* cache[journal_hash][key] = result, creating cache[journal_hash] when missing
cache_put(c, journal_hash, key, result) ==
    LET old == IF journal_hash \in DOMAIN c THEN c[journal_hash] ELSE << >>
        new == [k \in DOMAIN old \cup {key} |-> IF k = key THEN result ELSE old[k]]
    IN  [h \in DOMAIN c \cup {journal_hash} |-> IF h = journal_hash THEN new ELSE c[h]]

\* Mutant: the 0.0 of a failed command is stored like any other result.
run_hledger_command_caching_failure(args, year, journal_hash, c, proc) ==
    LET key == cache_key(args, year)
    IN  IF journal_hash \in DOMAIN c /\ key \in DOMAIN c[journal_hash]
        THEN [ret |-> c[journal_hash][key], cache |-> c, ran |-> FALSE, failed |-> FALSE]
        ELSE LET result == IF proc.exit # 0 THEN Zero ELSE parse_hledger_output(proc.stdout)
             IN  [ret |-> result, cache |-> cache_put(c, journal_hash, key, result),
                  ran |-> TRUE, failed |-> proc.exit # 0]

\* run_hledger_command(args, year) when the journal hashes to journal_hash, the
\* cache file holds c and the command, if run, ends as proc: the value returned,
\* the cache file afterwards, whether the command ran and whether it failed.
\* The cache file is taken to be readable and writable.
run_hledger_command(args, year, journal_hash, c, proc) ==
    LET key == cache_key(args, year)
    IN  IF journal_hash \in DOMAIN c /\ key \in DOMAIN c[journal_hash]
        THEN [ret |-> c[journal_hash][key], cache |-> c, ran |-> FALSE, failed |-> FALSE]
        ELSE IF proc.exit # 0
             THEN [ret |-> Zero, cache |-> c, ran |-> TRUE, failed |-> TRUE]
             ELSE LET result == parse_hledger_output(proc.stdout)
                  IN  [ret |-> result, cache |-> cache_put(c, journal_hash, key, result),
                       ran |-> TRUE, failed |-> FALSE]

----------------------------------------------------------------------------
(* compute_interest                                                        *)

MonthsPerYear == 12

\* b ** m for ints, m >= 0
RECURSIVE IntPow(_, _)
IntPow(b, m) == IF m = 0 THEN 1 ELSE b * IntPow(b, m - 1)

\* pow(x, m), m >= 0: x is in lowest terms, and so is the result
Pow(x, m) == [n |-> IntPow(x.n, m), d |-> IntPow(x.d, m)]

balance_after(m, principal, monthly_rate, payment) ==
    IF monthly_rate = Zero
    THEN Minus(principal, Times(payment, Num(m)))
    ELSE LET factor == Pow(Plus(Num(1), monthly_rate), m)
         IN  Minus(Times(principal, factor),
                   Over(Times(payment, Minus(factor, Num(1))), monthly_rate))

interest_paid_until(m, principal, monthly_rate, payment) ==
    LET total_paid == Times(payment, Num(m))
        remaining_balance == balance_after(m, principal, monthly_rate, payment)
        principal_reduction == Minus(principal, remaining_balance)
    IN  Minus(total_paid, principal_reduction)

\* Option 3, once the four parameters are known to be set.
amortization_interest(year, principal, monthly_rate, payment, start_year) ==
    LET months == MonthsPerYear * (year - start_year)
        start_month == IF months > 0 THEN months ELSE 0
        end_month == start_month + MonthsPerYear
    IN  Minus(interest_paid_until(end_month, principal, monthly_rate, payment),
              interest_paid_until(start_month, principal, monthly_rate, payment))

\* Mutant: the amortization parameters are looked at before the interest account.
interest_source_amortization_first(year, pers) ==
    IF "interest_by_year" \in DOMAIN pers
           /\ PyStr(Str(year)) \in DOMAIN pers["interest_by_year"]
    THEN "override"
    ELSE IF None \notin {Get(pers, "principal", None), Get(pers, "monthly_rate", None),
                         Get(pers, "payment", None), Get(pers, "start_year", None)}
         THEN "amortization"
    ELSE IF "interest_account" \in DOMAIN pers
         THEN "account"
    ELSE "none"

\* The option compute_interest takes: the order of its tests.
interest_source(year, pers) ==
    IF "interest_by_year" \in DOMAIN pers
           /\ PyStr(Str(year)) \in DOMAIN pers["interest_by_year"]
    THEN "override"
    ELSE IF "interest_account" \in DOMAIN pers
         THEN "account"
    ELSE IF None \notin {Get(pers, "principal", None), Get(pers, "monthly_rate", None),
                         Get(pers, "payment", None), Get(pers, "start_year", None)}
         THEN "amortization"
    ELSE "none"

\* compute_interest(year): the value returned, the cache file afterwards and the
\* ledger query made (<< >> when none was).
compute_interest(year, pers, journal_hash, c, proc) ==
    LET source == interest_source(year, pers)
        args == <<"bal", pers["interest_account"]>>
        answer == run_hledger_command(args, <<year>>, journal_hash, c, proc)
    IN  CASE source = "override" ->
                 [ret |-> pers["interest_by_year"][PyStr(Str(year))], cache |-> c,
                  query |-> << >>]
          [] source = "account" ->
                 [ret |-> answer.ret, cache |-> answer.cache,
                  query |-> <<[cmd |-> hledger_cmd(args, <<year>>),
                               ran |-> answer.ran, failed |-> answer.failed]>>]
          [] source = "amortization" ->
                 [ret |-> amortization_interest(year, pers["principal"],
                              pers["monthly_rate"], pers["payment"],
                              pers["start_year"].n),
                  cache |-> c, query |-> << >>]
          [] OTHER -> [ret |-> Zero, cache |-> c, query |-> << >>]

----------------------------------------------------------------------------
(* Interest configurations, years and ledger answers compute_interest is   *)
(* applied to.                                                             *)

Years == {2023, 2024, 2025}

\* interest_by_year: its keys are the YAML keys as written, a quoted '2024' being a
\* str and a bare 2024 an int.
OverrideMaps ==
    {<< >>,
     <<[k \in {} |-> Zero]>>,
     <<[k \in {PyStr("2024")} |-> Num(5000)]>>,
     <<[k \in {PyNum(Num(2024))} |-> Num(5000)]>>,
     <<[k \in {PyStr("2023"), PyStr("2025")} |-> Num(4000)]>>}

InterestConfigs ==
    {Dict([interest_by_year |-> o, interest_account |-> a, principal |-> p,
           monthly_rate |-> r, payment |-> pay, start_year |-> sy]) :
        o \in OverrideMaps,
        a \in {<< >>, <<"expenses:interest">>},
        p \in {<< >>, <<Num(3)>>},
        r \in {<< >>, <<Zero>>, <<Num(1)>>},
        pay \in {<< >>, <<Num(2)>>},
        sy \in {<< >>, <<Num(2024)>>}}

InterestAnswers ==
    {Exited(1),
     Printed(<< >>),
     Printed(<<<<Token("$-500.00", <<Num(-500)>>), Token("expenses:interest", << >>)>>>>),
     Printed(<<<<Token("$300.00", <<Num(300)>>), Token("expenses:interest:a", << >>)>>,
               <<Token("--------------------", << >>)>>,
               <<Token("$1,200.00", <<Num(1200)>>)>>>>)}

InitInterest ==
    /\ brackets = << >>
    /\ surcharges = None
    /\ personal \in InterestConfigs
    /\ federal = << >>
    /\ cache = << >>
    /\ journal = 1
    /\ call = NoCall
    /\ ca = << >>
    /\ NotStarted

CallComputeInterest(year, proc) ==
    LET r == compute_interest(year, personal, journal, cache, proc)
    IN  /\ call' = [fn |-> "compute_interest", year |-> year,
                    ret |-> Returned(r.ret), query |-> r.query]
        /\ cache' = r.cache
        /\ UNCHANGED <<config, journal, process>>

NextInterest == \E year \in Years, proc \in InterestAnswers : CallComputeInterest(year, proc)

\* compute_interest under any interest configuration, for several years in a row.
SpecInterest == InitInterest /\ [][NextInterest]_vars

----------------------------------------------------------------------------
(* compute_taxes: the arithmetic between the last query and the report.    *)

MedicareShareOfSETax == Frac(29, 1000)
LongTermRate == Frac(2, 10)
Half == Frac(1, 2)

compute_self_employment_tax(net_business_income) ==
    Times(Times(net_business_income, SelfEmploymentShare), MedicareShareOfSETax)

\* x1 + x2 + ... of a non-empty sequence, left to right
RECURSIVE SumSeq(_)
SumSeq(xs) ==
    IF Len(xs) = 1 THEN xs[1] ELSE Plus(SumSeq(SubSeq(xs, 1, Len(xs) - 1)), xs[Len(xs)])

\* Mutant: the value returned by compute_social_security_tax is added as it is.
total_tax_due_adding_ss_return(tax_liability, inv_tax, ss_extra, se_tax, medicare_extra) ==
    Max2(Plus(Plus(Plus(Plus(tax_liability, inv_tax), ss_extra), se_tax), medicare_extra),
         Zero)

\* Lines 317-318: total_tax, and max(total_tax, 0.0)
total_tax_due(tax_liability, inv_tax, ss_extra, se_tax, medicare_extra) ==
    Max2(Plus(Plus(Minus(Plus(tax_liability, inv_tax), ss_extra), se_tax), medicare_extra),
         Zero)

\* Lines 298-332 and 353-357: every value compute_taxes computes from the
\* aggregates a (one field per query), the interest INTEREST, the resolved
\* entries and the personal configuration.
tax_summary(a, INTEREST, fed_params, ca_params, home_office, additional_deduction, pers, fed) ==
    LET fed_brackets == fed_params["brackets"]
        fed_sd == fed_params["standard_deduction"]
        ss_max == fed_params["ss_max"]
        ca_brackets == ca_params["brackets"]
        ca_sd == ca_params["standard_deduction"]
        ca_surcharges == Get(ca_params, "surcharges", PyList(<< >>))
        fed_surcharges == Get(fed_params, "surcharges", PyList(<< >>))
        home_deduct == Times(a.home_office_expenses, home_office["deduction_rate"])
        ded == SumSeq(<<home_deduct, Times(INTEREST, home_office["deduction_rate"]),
                        home_office["fixed_deduction"]>>)
        net_biz == Minus(Minus(Minus(a.total_inc, a.w2), ded), a.business_expenses)
        solo_cont == compute_solo_401k_contribution(net_biz, pers)
        se_tax == compute_self_employment_tax(net_biz)
        short_term == Plus(a.dividend_shortterm, a.capital_gain_shortterm)
        inv_income == Minus(SumSeq(<<a.interest, a.dividend_shortterm, a.dividend_longterm,
                                     a.capital_gain_shortterm, a.capital_gain_longterm>>),
                            a.loss)
        agi == Minus(Minus(Minus(SumSeq(<<a.w2, a.interest, net_biz, short_term>>), a.loss),
                           Times(se_tax, Half)),
                     solo_cont)
        inv_tax == compute_investment_tax(inv_income, agi, pers, fed).v
        ss_extra == compute_social_security_tax(a.w2_medicare, net_biz, ss_max,
                                                a.soc_tax_paid, pers)
        medicare_extra == compute_medicare_tax(a.w2_medicare, net_biz, a.med_tax_paid,
                                               pers, fed).v
        fed_taxable_income ==
            Minus(Minus(Minus(agi, fed_sd), additional_deduction),
                  Times(LongTermRate, a.dividend_qualified))
        tax_liability ==
            Plus(compute_bracket_tax(fed_taxable_income, fed_brackets),
                 Times(LongTermRate, Plus(a.dividend_longterm, a.capital_gain_longterm)))
        total_tax == total_tax_due(tax_liability, inv_tax, ss_extra, se_tax, medicare_extra)
        owed == Minus(Minus(total_tax, a.fed_tax_paid), a.foreign_credit)
        ca_mod_inc ==
            Minus(Plus(Plus(Minus(Minus(Minus(SumSeq(<<a.w2_ca, a.interest_state, net_biz,
                                                       Plus(a.dividend_shortterm_state,
                                                            a.capital_gain_shortterm)>>),
                                              a.loss),
                                        Times(se_tax, Half)),
                                  solo_cont),
                            a.dividend_longterm),
                       a.capital_gain_longterm),
                  ca_sd)
        ca_tax == compute_bracket_tax(ca_mod_inc, ca_brackets)
        ca_owed == Minus(Plus(compute_surcharges(ca_mod_inc, ca_surcharges), ca_tax),
                         a.state_tax_paid)
        total_income ==
            Plus(Minus(SumSeq(<<a.w2, a.interest, a.dividend_shortterm,
                                a.capital_gain_shortterm, a.dividend_longterm,
                                a.capital_gain_longterm>>),
                       a.loss),
                 net_biz)
        ti == Minus(Minus(Minus(Minus(Minus(total_income, Times(se_tax, Half)), solo_cont),
                                fed_sd),
                          additional_deduction),
                    Times(LongTermRate, a.dividend_qualified))
        line10 == Plus(Times(se_tax, Half), solo_cont)
        line14 == Plus(Plus(fed_sd, additional_deduction),
                       Times(LongTermRate, a.dividend_qualified))
    IN  [ded |-> ded, net_biz |-> net_biz, solo_cont |-> solo_cont, se_tax |-> se_tax,
         inv_income |-> inv_income, agi |-> agi, inv_tax |-> inv_tax,
         ss_extra |-> ss_extra, medicare_extra |-> medicare_extra,
         fed_taxable_income |-> fed_taxable_income, tax_liability |-> tax_liability,
         total_tax |-> total_tax, owed |-> owed, ca_mod_inc |-> ca_mod_inc,
         ca_tax |-> ca_tax, ca_owed |-> ca_owed, total_income |-> total_income,
         line10 |-> line10, line14 |-> line14, ti |-> ti]

\* f"{x:,.2f}": x rounded to cents, a tie going to the even cent
Cents(x) ==
    LET scaled == Times(x, Num(100))
        low == Floor(scaled)
        twice == 2 * Rem(scaled)
        cents == IF twice < scaled.d THEN low
                 ELSE IF twice > scaled.d THEN low + 1
                 ELSE IF low % 2 = 0 THEN low ELSE low + 1
    IN  Frac(cents, 100)

\* Lines 334-371: the amounts of the printed summary, by the label of their line;
\* a is the aggregates and s the values computed from them.
printed_summary(a, s) ==
    [W2_Wages_Line_1 |-> Cents(a.w2),
     Interest_Line_2b |-> Cents(a.interest),
     State_Interest |-> Cents(a.interest_state),
     Non_Qualified_Dividends |-> Cents(a.dividend_shortterm),
     Short_Term_Capital_Gain |-> Cents(a.capital_gain_shortterm),
     Short_term_total |-> Cents(Plus(a.dividend_shortterm, a.capital_gain_shortterm)),
     Qualified_Dividends_Line_3a |-> Cents(a.dividend_longterm),
     Long_term_Capital_Gains |-> Cents(a.capital_gain_longterm),
     Long_term_total |-> Cents(Plus(a.dividend_longterm, a.capital_gain_longterm)),
     Loss_to_offset_income |-> Cents(a.loss),
     Business_Income |-> Cents(Minus(a.total_inc, a.w2)),
     Home_Office_Deduction |-> Cents(s.ded),
     Business_Expenses |-> Cents(a.business_expenses),
     Net_Business_Income_Line_8 |-> Cents(s.net_biz),
     Total_Line_9 |-> Cents(s.total_income),
     Line_10 |-> Cents(s.line10),
     Line_14 |-> Cents(s.line14),
     Line_15 |-> Cents(s.ti),
     Final_tax_bill |-> Cents(s.tax_liability),
     Self_Employment_Tax |-> Cents(s.se_tax),
     Investment_Tax_NIIT |-> Cents(s.inv_tax),
     Extra_Social_Security_Tax |-> Cents(s.ss_extra),
     Extra_Medicare_Tax |-> Cents(s.medicare_extra),
     Foreign_Tax_Credit |-> Cents(a.foreign_credit),
     Total_Tax_Due |-> Cents(s.total_tax),
     Tax_Deposited |-> Cents(a.fed_tax_paid),
     Total_Federal_Owed |-> Cents(s.owed),
     Total_CA_Owed |-> Cents(s.ca_owed),
     Max_Solo_401k_Contribution |-> Cents(s.solo_cont)]

----------------------------------------------------------------------------
(* compute_taxes: its ledger queries, one step per query.                  *)

RECURSIVE Concat(_)
Concat(seqs) == IF seqs = << >> THEN << >> ELSE Head(seqs) \o Concat(Tail(seqs))

\* An item of a query's accounts: a str, or the dict an unquoted "key: value"
\* makes, [t |-> "dict", items |-> <<[k |-> key, v |-> None or value]>>].
account_strings(acct) ==
    IF acct.t = "dict"
    THEN [i \in 1..Len(acct.items) |->
             IF acct.items[i].v = None
             THEN acct.items[i].k \o ":"
             ELSE acct.items[i].k \o ":" \o acct.items[i].v]
    ELSE <<acct.s>>

build_accounts(q, groups) ==
    LET accounts == Get(q, "accounts", << >>)
        remove_groups == Get(q, "remove_groups", << >>)
        exclude_accounts == Get(q, "exclude_accounts", << >>)
    IN  Concat([i \in 1..Len(accounts) |-> account_strings(accounts[i])])
            \o Concat([i \in 1..Len(remove_groups) |-> Get(groups, remove_groups[i], << >>)])
            \o Concat([i \in 1..Len(exclude_accounts) |->
                           <<"--alias", exclude_accounts[i] \o "=xyz">>])

\* groups = {k: v for k, v in aliases.items() if k not in ["queries"]}
groups_of(aliases) == [k \in DOMAIN aliases \ {"queries"} |-> aliases[k]]

\* The arguments of run_hledger_command in hledger_query(query_key)
hledger_query(query_key, aliases, year) ==
    [args |-> build_accounts(Get(aliases["queries"], query_key, << >>), groups_of(aliases)),
     year |-> <<year>>]

\* The arguments of run_hledger_command in hledger_query_no_year(query_key)
hledger_query_no_year(query_key, aliases, year) ==
    LET accounts == build_accounts(Get(aliases["queries"], query_key, << >>),
                                   groups_of(aliases))
    IN  [args |-> [i \in 1..Len(accounts) |-> accounts[i] \o ":" \o Str(year)],
         year |-> << >>]

YearQueries ==
    <<"w2", "w2_medicare", "w2_ca", "total_inc", "dividend_longterm",
      "dividend_shortterm", "dividend_shortterm_state", "dividend_qualified",
      "capital_gain_longterm", "capital_gain_shortterm", "loss", "interest",
      "interest_state">>

NoYearQueries == <<"fed_tax_paid", "soc_tax_paid", "med_tax_paid", "state_tax_paid">>

\* The queries compute_taxes makes after compute_interest, in order: the local
\* variable each result goes to, whether it is added to it (+=) or assigned, and
\* the arguments of run_hledger_command.
query_plan(year, home_office, aliases) ==
    LET home_accounts == Get(home_office, "accounts", << >>)
        business_accounts ==
            Get(Get(aliases["queries"], "business_expenses", << >>), "accounts", << >>)
        foreign == hledger_query("foreign_credit", aliases, year)
    IN  [i \in 1..Len(YearQueries) |->
            LET q == hledger_query(YearQueries[i], aliases, year)
            IN  [var |-> YearQueries[i], add |-> FALSE, args |-> q.args, year |-> q.year]]
        \o [i \in 1..Len(NoYearQueries) |->
            LET q == hledger_query_no_year(NoYearQueries[i], aliases, year)
            IN  [var |-> NoYearQueries[i], add |-> FALSE, args |-> q.args, year |-> q.year]]
        \o [i \in 1..Len(home_accounts) |->
            [var |-> "home_office_expenses", add |-> TRUE,
             args |-> <<home_accounts[i]>>, year |-> <<year>>]]
        \o [i \in 1..Len(business_accounts) |->
            [var |-> "business_expenses", add |-> TRUE,
             args |-> <<business_accounts[i].s>>, year |-> <<year>>]]
        \o <<[var |-> "foreign_credit", add |-> FALSE,
              args |-> foreign.args, year |-> foreign.year]>>

\* var = result, or var += result
assign(a, item, result) ==
    [v \in DOMAIN a \cup {item.var} |->
        IF v # item.var THEN a[v]
        ELSE IF item.add THEN Plus(Get(a, v, Zero), result)
        ELSE result]

\* The local variables after the last query: the two sums start at 0.0.
aggregates(a) ==
    [v \in DOMAIN a \cup {"home_office_expenses", "business_expenses"} |-> Get(a, v, Zero)]

\* load_home_office_info(), load_additional_federal_deduction()
load_home_office_info(pers) == Get(pers, "home_office", << >>)
load_additional_federal_deduction(pers) == Get(pers, "additional_federal_deduction", Zero)

\* A call of run_hledger_command, as recorded in call.
QueryCall(args, year, journal_hash, answer) ==
    [fn |-> "run_hledger_command", key |-> cache_key(args, year),
     journal_hash |-> journal_hash, cmd |-> hledger_cmd(args, year),
     ret |-> Returned(answer.ret), ran |-> answer.ran, failed |-> answer.failed]

----------------------------------------------------------------------------
(* The configuration and the ledger answers compute_taxes runs with.       *)

MaxFailures == 1

LedgerYears == {2024}

\* hledger_parameters/aliases.yaml
LedgerAliases ==
    [retirement |-> <<"not:acct:retirement">>,
     queries |->
        [k \in {YearQueries[i] : i \in 1..Len(YearQueries)}
                 \cup {NoYearQueries[i] : i \in 1..Len(NoYearQueries)}
                 \cup {"business_expenses"} |->
            CASE k = "w2" ->
                    [accounts |-> <<PyStr("income:w2")>>,
                     remove_groups |-> <<"retirement">>,
                     exclude_accounts |-> <<"income:w2:hsa">>]
              [] k = "total_inc" ->
                    [accounts |-> <<[t |-> "dict",
                                     items |-> <<[k |-> "income", v |-> None]>>]>>]
              [] k = "dividend_shortterm_state" ->
                    [accounts |-> <<PyStr("income:dividend_shortterm")>>]
              [] k = "business_expenses" ->
                    [accounts |-> <<PyStr("expenses:business")>>]
              [] OTHER -> [accounts |-> <<PyStr("income:" \o k)>>]]]

LedgerHomeOffice ==
    {Dict([accounts |-> acc, deduction_rate |-> <<Num(1)>>,
           fixed_deduction |-> <<Zero>>]) :
        acc \in {<< >>, <<<<"expenses:home">>>>}}

LedgerPersonal ==
    {Dict([filing_status |-> f, interest_by_year |-> o, interest_account |-> acct,
           home_office |-> <<h>>]) :
        f \in {<< >>, <<"single">>},
        o \in {<< >>, <<[k \in {PyStr("2024")} |-> Num(2000000)]>>},
        acct \in {<<"expenses:interest">>},
        h \in LedgerHomeOffice}

\* The amounts are multiples of 2,000,000, which keeps 0.9235 * 0.029 of them, and
\* the other products, within a few decimals; the NIIT thresholds are out of their
\* reach.
LedgerFederal ==
    [single |-> [brackets |-> <<[threshold |-> Zero, rate |-> Frac(1, 10)],
                                [threshold |-> Num(2000000), rate |-> Frac(1, 5)]>>,
                 standard_deduction |-> Num(1000000),
                 ss_max |-> Num(3000000),
                 niit_threshold |-> Num(100000000),
                 medicare_threshold |-> Num(2000000)],
     joint |-> [brackets |-> <<[threshold |-> Zero, rate |-> Frac(1, 10)],
                               [threshold |-> Num(4000000), rate |-> Frac(1, 5)]>>,
                standard_deduction |-> Num(2000000),
                ss_max |-> Num(3000000),
                niit_threshold |-> Num(100000000),
                medicare_threshold |-> Num(4000000)]]

LedgerCA ==
    {<< >>,
     [joint |-> [brackets |-> <<[threshold |-> Zero, rate |-> Frac(1, 20)],
                                [threshold |-> Num(2000000), rate |-> Frac(1, 10)]>>,
                 standard_deduction |-> Num(1000000),
                 surcharges |-> PyList(<<[threshold |-> Num(4000000),
                                          rate |-> Frac(1, 20)]>>)]]}

LedgerAnswers ==
    {Exited(1),
     Printed(<<<<Token("$2,000,000.00", <<Num(2000000)>>)>>>>)}

InitLedger ==
    /\ brackets = << >>
    /\ surcharges = None
    /\ personal \in LedgerPersonal
    /\ federal = LedgerFederal
    /\ ca \in LedgerCA
    /\ cache = << >>
    /\ journal = 1
    /\ call = NoCall
    /\ NotStarted

\* compute_taxes(year) up to its first hledger_query: the parameters are loaded,
\* the entries of the filing status resolved and compute_interest called.
StartComputeTaxes(year, proc) ==
    LET fed_params == resolve_in_compute_taxes(personal, federal)
        ca_params == entry_or_joint(ca, load_filing_status(personal))
        r == compute_interest(year, personal, journal, cache, proc)
        asked == r.query # << >>
    IN  /\ pc \in {"idle", "done", "aborted"}
        /\ report' = << >>
        /\ IF fed_params.kind = "error" \/ ca_params.kind = "error"
           THEN /\ pc' = "aborted"
                /\ locals' = [year |-> year]
                /\ call' = [fn |-> "compute_taxes", year |-> year,
                            ret |-> Raised("ValueError")]
                /\ UNCHANGED <<cache, failures>>
           ELSE /\ asked /\ r.query[1].failed => failures < MaxFailures
                /\ pc' = "query"
                /\ locals' = [year |-> year, fed_params |-> fed_params.v,
                              ca_params |-> ca_params.v, INTEREST |-> r.ret,
                              next |-> 1, a |-> << >>]
                /\ call' = IF asked
                           THEN QueryCall(<<"bal", personal["interest_account"]>>, <<year>>,
                                          journal,
                                          [ret |-> r.ret, ran |-> r.query[1].ran,
                                           failed |-> r.query[1].failed])
                           ELSE [fn |-> "compute_interest", year |-> year,
                                 ret |-> Returned(r.ret), query |-> << >>]
                /\ cache' = r.cache
                /\ failures' = IF asked /\ r.query[1].failed THEN failures + 1 ELSE failures
        /\ UNCHANGED <<config, journal>>

\* The next hledger_query, hledger_query_no_year or run_hledger_command of
\* compute_taxes; proc is how the hledger command ends if it is run.
QueryStep(proc) ==
    /\ pc = "query"
    /\ LET plan == query_plan(locals.year, load_home_office_info(personal), LedgerAliases)
           item == plan[locals.next]
           answer == run_hledger_command(item.args, item.year, journal, cache, proc)
       IN  /\ answer.failed => failures < MaxFailures
           /\ cache' = answer.cache
           /\ call' = QueryCall(item.args, item.year, journal, answer)
           /\ locals' = [locals EXCEPT !.next = @ + 1,
                                       !.a = assign(@, item, answer.ret)]
           /\ pc' = IF locals.next = Len(plan) THEN "summary" ELSE "query"
           /\ failures' = IF answer.failed THEN failures + 1 ELSE failures
    /\ UNCHANGED <<config, journal, report>>

\* Lines 298-373: the taxes are computed from the local variables and the
\* summary is printed.
PrintSummary ==
    /\ pc = "summary"
    /\ LET home_office == load_home_office_info(personal)
       IN  IF {"deduction_rate", "fixed_deduction"} \subseteq DOMAIN home_office
           THEN /\ report' =
                    LET a == aggregates(locals.a)
                        s == tax_summary(a, locals.INTEREST, locals.fed_params,
                                         locals.ca_params, home_office,
                                         load_additional_federal_deduction(personal),
                                         personal, federal)
                    IN  [year |-> locals.year, a |-> a, summary |-> s,
                         printed |-> printed_summary(a, s)]
                /\ pc' = "done"
           ELSE /\ report' = << >>
                /\ pc' = "aborted"
    /\ UNCHANGED <<config, store, call, locals, failures>>

NextLedger ==
    \/ \E year \in LedgerYears, proc \in LedgerAnswers : StartComputeTaxes(year, proc)
    \/ \E proc \in LedgerAnswers : QueryStep(proc)
    \/ PrintSummary

\* compute_taxes run again and again over one journal and one cache file.
SpecLedger == InitLedger /\ [][NextLedger]_vars

----------------------------------------------------------------------------
(* compute_taxes from its last query on: the aggregates and parameter      *)
(* tables the summary is computed from.                                    *)

\* d[key] = v
With(d, key, v) == [k \in DOMAIN d \cup {key} |-> IF k = key THEN v ELSE d[k]]

FederalSurchargeOptions ==
    {<< >>, <<PyList(<<[threshold |-> Num(1000000), rate |-> Frac(1, 100)]>>)>>}

\* The federal table of LedgerFederal, each entry with the same surcharges key
\* (or none) and NIIT threshold.
SummaryFederal ==
    {[status \in DOMAIN LedgerFederal |->
        LET entry == With(LedgerFederal[status], "niit_threshold", niit)
        IN  IF sur = << >> THEN entry ELSE With(entry, "surcharges", sur[1])] :
     sur \in FederalSurchargeOptions,
     niit \in {Num(1000000), Num(100000000)}}

\* No interest override and no home-office accounts: the query of the interest
\* account gave INTEREST, and home_office_expenses stays 0.0.
SummaryPersonal ==
    {p \in LedgerPersonal :
        "interest_by_year" \notin DOMAIN p /\ "accounts" \notin DOMAIN p["home_office"]}

\* The results of the queries of one run, by local variable.
SummaryAggregates ==
    {[w2 |-> w2, w2_medicare |-> w2, w2_ca |-> w2, total_inc |-> total_inc,
      dividend_longterm |-> dividend_longterm, dividend_shortterm |-> Zero,
      dividend_shortterm_state |-> Zero, dividend_qualified |-> dividend_longterm,
      capital_gain_longterm |-> capital_gain_longterm, capital_gain_shortterm |-> Zero,
      loss |-> Zero, interest |-> Zero, interest_state |-> Zero,
      fed_tax_paid |-> fed_tax_paid, soc_tax_paid |-> soc_tax_paid,
      med_tax_paid |-> Zero, state_tax_paid |-> Zero, business_expenses |-> Zero,
      foreign_credit |-> foreign_credit] :
        w2 \in {Zero, Num(2000000)},
        total_inc \in {Num(2000000), Num(4000000)},
        dividend_longterm \in {Zero, Num(1000000)},
        capital_gain_longterm \in {Zero, Num(1000000)},
        fed_tax_paid \in {Zero, Num(1000000)},
        soc_tax_paid \in {Zero, Num(500000)},
        foreign_credit \in {Zero, Num(100000)}}

\* compute_taxes(year) has made its last query.
InitSummary ==
    /\ brackets = << >>
    /\ surcharges = None
    /\ personal \in SummaryPersonal
    /\ federal \in SummaryFederal
    /\ ca \in LedgerCA \ {<< >>}
    /\ cache = << >>
    /\ journal = 1
    /\ call = NoCall
    /\ pc = "summary"
    /\ \E year \in LedgerYears, a \in SummaryAggregates :
          locals = [year |-> year,
                    fed_params |-> resolve_in_compute_taxes(personal, federal).v,
                    ca_params |-> entry_or_joint(ca, load_filing_status(personal)).v,
                    INTEREST |-> Zero,
                    next |-> Len(query_plan(year, load_home_office_info(personal),
                                            LedgerAliases)) + 1,
                    a |-> a]
    /\ report = << >>
    /\ failures = 0

NextSummary == PrintSummary

\* The computation and the printing of the summary, for any totals the ledger
\* gave.
SpecSummary == InitSummary /\ [][NextSummary]_vars

----------------------------------------------------------------------------
(* Claims about the table-driven calculators (SpecTables).                 *)

\* What the bracket at index i adds, as the specification states it.
BracketTerm(income, brks, i) ==
    IF Less(brks[i].threshold, income)
    THEN Times(brks[i].rate,
               Minus(IF i < Len(brks) THEN Min2(income, brks[i + 1].threshold) ELSE income,
                     brks[i].threshold))
    ELSE Zero

RECURSIVE MarginalSum(_, _, _)
MarginalSum(income, brks, k) ==
    IF k = 0
    THEN Zero
    ELSE Plus(BracketTerm(income, brks, k), MarginalSum(income, brks, k - 1))

ExampleBrackets ==
    <<[threshold |-> Num(0), rate |-> Frac(10, 100)],
      [threshold |-> Num(10000), rate |-> Frac(20, 100)]>>

\* C1: for any income and any ascending bracket table (thresholds from 0 upward,
\* rates in [0,1]), compute_bracket_tax returns the marginal sum; the result is
\* never negative and is 0 for income <= 0; for [{0,10%},{10000,20%}] income 5000
\* gives 500 and income 15000 gives 2000.
C1_BracketTaxIsMarginalSum ==
    call.fn = "compute_bracket_tax" =>
        LET income == call.taxable_income
            tax == call.ret.v
        IN  /\ call.ret.kind = "value"
            /\ tax = MarginalSum(income, brackets, Len(brackets))
            /\ LessEq(Zero, tax)
            /\ (LessEq(income, Zero) => tax = Zero)
            /\ (brackets = ExampleBrackets /\ income = Num(5000) => tax = Num(500))
            /\ (brackets = ExampleBrackets /\ income = Num(15000) => tax = Num(2000))

\* C1 witness: the example table taxed at 15000, both brackets contributing.
C1_Witness ==
    /\ call.fn = "compute_bracket_tax"
    /\ brackets = ExampleBrackets
    /\ call.taxable_income = Num(15000)
    /\ call.ret = Returned(Num(2000))

\* rate * max(income - threshold, 0), a missing threshold or rate counting as 0.
RuleContribution(income, rule) ==
    LET threshold == IF "threshold" \in DOMAIN rule THEN rule.threshold ELSE Zero
        rate == IF "rate" \in DOMAIN rule THEN rule.rate ELSE Zero
        excess == Minus(income, threshold)
    IN  IF Less(Zero, excess) THEN Times(rate, excess) ELSE Zero

\* The sum of the contributions of the rules at indices k..Len(items), last first.
RECURSIVE RuleSum(_, _, _)
RuleSum(income, items, k) ==
    IF k > Len(items)
    THEN Zero
    ELSE Plus(RuleSum(income, items, k + 1), RuleContribution(income, items[k]))

\* items without the element at index i
Without(items, i) == SubSeq(items, 1, i - 1) \o SubSeq(items, i + 1, Len(items))

ExampleSurcharges == PyList(<<[threshold |-> Num(1000000), rate |-> Frac(1, 100)]>>)

\* C2: compute_surcharges returns the sum over all rules of
\* rate * max(income - threshold, 0), missing threshold/rate counting as 0 and an
\* empty or absent list giving 0; the result is the same for every order of the
\* rules, and each rule adds the same amount whatever other rules are present; for
\* [{threshold:1000000, rate:0.01}] income 1500000 gives 5000, below the threshold 0.
C2_SurchargesAreIndependentSum ==
    call.fn = "compute_surcharges" =>
        LET income == call.taxable_income
            total == call.ret.v
            items == IF surcharges.t = "list" THEN surcharges.items ELSE << >>
            n == Len(items)
        IN  /\ call.ret.kind = "value"
            /\ total = RuleSum(income, items, 1)
            /\ (n = 0 => total = Zero)
            /\ \A p \in Permutations(1..n) :
                   compute_surcharges(income, PyList([i \in 1..n |-> items[p[i]]])) = total
            /\ \A i \in 1..n :
                   Minus(total, compute_surcharges(income, PyList(Without(items, i))))
                       = RuleContribution(income, items[i])
            /\ (surcharges = ExampleSurcharges /\ income = Num(1500000) => total = Num(5000))
            /\ (surcharges = ExampleSurcharges /\ Less(income, Num(1000000)) => total = Zero)

\* C2 witness: two different rules, both above their thresholds, both contributing.
C2_Witness ==
    /\ call.fn = "compute_surcharges"
    /\ surcharges = PyList(<<[threshold |-> Num(250000), rate |-> Frac(1, 20)],
                             [threshold |-> Num(1000000), rate |-> Frac(1, 100)]>>)
    /\ call.taxable_income = Num(1500000)
    /\ call.ret = Returned(Num(67500))

\* The data-model invariant of a bracket table.
StrictlyIncreasing(brks) ==
    \A i \in 1..(Len(brks) - 1) : Less(brks[i].threshold, brks[i + 1].threshold)

InUnitInterval(x) == LessEq(Zero, x) /\ LessEq(x, Num(1))

BracketRatesInUnit(brks) == \A i \in 1..Len(brks) : InUnitInterval(brks[i].rate)

SurchargeRatesInUnit(rules) ==
    rules.t = "list" =>
        \A i \in 1..Len(rules.items) :
            "rate" \in DOMAIN rules.items[i] => InUnitInterval(rules.items[i].rate)

\* C3: for a fixed bracket table with strictly increasing thresholds and rates in
\* [0,1], and a fixed surcharge list with rates in [0,1], both calculators are
\* monotonic non-decreasing in income: the result of a call is at least the result
\* for every smaller income and at most the result for every larger one.
C3_MonotonicInIncome ==
    /\ (call.fn = "compute_bracket_tax"
            /\ StrictlyIncreasing(brackets) /\ BracketRatesInUnit(brackets)) =>
           \A other \in BracketIncomes :
               /\ LessEq(other, call.taxable_income) =>
                      LessEq(compute_bracket_tax(other, brackets), call.ret.v)
               /\ LessEq(call.taxable_income, other) =>
                      LessEq(call.ret.v, compute_bracket_tax(other, brackets))
    /\ (call.fn = "compute_surcharges" /\ SurchargeRatesInUnit(surcharges)) =>
           \A other \in SurchargeIncomes :
               /\ LessEq(other, call.taxable_income) =>
                      LessEq(compute_surcharges(other, surcharges), call.ret.v)
               /\ LessEq(call.taxable_income, other) =>
                      LessEq(call.ret.v, compute_surcharges(other, surcharges))

\* C3 witness: a three-bracket table taxed in its top bracket, with strictly less
\* tax at a smaller income inside the middle bracket.
C3_Witness ==
    /\ call.fn = "compute_bracket_tax"
    /\ Len(brackets) = 3
    /\ StrictlyIncreasing(brackets) /\ BracketRatesInUnit(brackets)
    /\ call.taxable_income = Num(12500)
    /\ Less(Zero, compute_bracket_tax(Num(10000), brackets))
    /\ Less(compute_bracket_tax(Num(10000), brackets), call.ret.v)

----------------------------------------------------------------------------
(* Claims about the calculators that read the federal entry (SpecFederal). *)

\* The entry the specification says is used: that of the configured filing status
\* (of `unset` when none is configured) if the table has it, otherwise the "joint"
\* entry; << >> when neither exists.
SpecifiedEntry(unset) ==
    LET status == IF "filing_status" \in DOMAIN personal
                  THEN personal.filing_status
                  ELSE unset
    IN  IF status \in DOMAIN federal THEN <<federal[status]>>
        ELSE IF "joint" \in DOMAIN federal THEN <<federal["joint"]>>
        ELSE << >>

\* C4: compute_investment_tax returns 0 whenever agi <= the NIIT threshold (agi at
\* the threshold included), otherwise 0.038 * max(min(investment_income,
\* agi - threshold), 0): when the investment income exceeds the AGI excess the tax
\* is charged on the AGI excess, never on the full investment income; the result is
\* never negative; the threshold is the resolved entry's niit_threshold, or 200000.
C4_InvestmentTax ==
    (call.fn = "compute_investment_tax" /\ SpecifiedEntry("joint") # << >>) =>
        LET entry == SpecifiedEntry("joint")[1]
            threshold == IF "niit_threshold" \in DOMAIN entry
                         THEN entry.niit_threshold
                         ELSE Num(200000)
            excess == Minus(call.agi, threshold)
            income == call.investment_income
            smaller == IF LessEq(income, excess) THEN income ELSE excess
        IN  /\ call.ret.kind = "value"
            /\ LessEq(call.agi, threshold) => call.ret.v = Zero
            /\ Less(threshold, call.agi) =>
                   call.ret.v = IF Less(Zero, smaller)
                                THEN Times(Frac(38, 1000), smaller)
                                ELSE Zero
            /\ (Less(threshold, call.agi) /\ Less(excess, income)) =>
                   /\ call.ret.v = Times(Frac(38, 1000), excess)
                   /\ Less(call.ret.v, Times(Frac(38, 1000), income))
            /\ LessEq(Zero, call.ret.v)

\* C4 witness: AGI one dollar over the default threshold with a larger investment
\* income: the tax is 0.038 * 1.
C4_Witness ==
    /\ call.fn = "compute_investment_tax"
    /\ SpecifiedEntry("joint") # << >>
    /\ "niit_threshold" \notin DOMAIN SpecifiedEntry("joint")[1]
    /\ call.agi = Num(200001)
    /\ call.investment_income = Num(50000)
    /\ call.ret = Returned(Frac(38, 1000))

\* C7: compute_medicare_tax returns max(0, 0.0145 * medicare_wages + 0.009 *
\* max(0, medicare_wages + net_business_income * 0.9235 - threshold) - paid), the
\* threshold being the medicare_threshold of the entry the function resolves, or
\* 200000; the result is never negative, also for negative net business income
\* and for paid larger than the tax owed.
C7_MedicareTax ==
    (call.fn = "compute_medicare_tax" /\ SpecifiedEntry("single") # << >>) =>
        LET entry == SpecifiedEntry("single")[1]
            threshold == IF "medicare_threshold" \in DOMAIN entry
                         THEN entry.medicare_threshold
                         ELSE Num(200000)
            base == Times(Frac(145, 10000), call.w2_medicare)
            over == Minus(Plus(call.w2_medicare,
                               Times(call.net_business_income, Frac(9235, 10000))),
                          threshold)
            surtax == IF Less(Zero, over) THEN Times(Frac(9, 1000), over) ELSE Zero
            due == Minus(Plus(base, surtax), call.med_tax_paid)
        IN  /\ call.ret.kind = "value"
            /\ call.ret.v = IF Less(Zero, due) THEN due ELSE Zero
            /\ LessEq(Zero, call.ret.v)

\* C7 witness: negative net business income, a surtax still due, and more paid
\* than owed: the result is 0, not negative.
C7_Witness ==
    /\ call.fn = "compute_medicare_tax"
    /\ call.net_business_income = Num(-20000)
    /\ call.w2_medicare = Num(300000)
    /\ call.med_tax_paid = Num(10000)
    /\ call.ret = Returned(Zero)

\* C8: the Medicare calculator, the NIIT calculator and the orchestrator all
\* select the same federal entry for any personal configuration (filing_status
\* set or absent) and any federal table: the entry of the configured filing
\* status if the table has it, otherwise the "joint" entry; all fail when neither
\* exists.
C8_SameEntryEverywhere ==
    call.fn \in {"compute_medicare_tax", "compute_investment_tax", "compute_taxes"} =>
        LET configured == IF "filing_status" \in DOMAIN personal
                          THEN {personal.filing_status}
                          ELSE {}
            found == configured \cap DOMAIN federal
        IN  /\ call.fed_params =
                   IF found # {} THEN Returned(federal[CHOOSE f \in found : TRUE])
                   ELSE IF "joint" \in DOMAIN federal THEN Returned(federal["joint"])
                   ELSE Raised("ValueError")
            /\ call.fed_params = resolve_in_medicare_tax(personal, federal)
            /\ call.fed_params = resolve_in_investment_tax(personal, federal)
            /\ call.fed_params = resolve_in_compute_taxes(personal, federal)

----------------------------------------------------------------------------
(* Claims about the calculators that read personal.yaml (SpecPersonal).    *)

\* C5: with max_contribution = net_business_income * 0.19732,
\* compute_solo_401k_contribution returns max_contribution for "maximize" or no
\* configured policy, 0 for "none" or numeric 0, max_contribution * p/100 for any
\* other numeric p, and max_contribution for any other value (a number being what
\* Python takes for one: int, float, and bool as 0 or 1); for 100000 this gives
\* 19732 for "maximize", 9866 for 50 and 0 for "none".
C5_SoloContribution ==
    call.fn = "compute_solo_401k_contribution" =>
        LET income == call.net_business_income
            max_contribution == Frac(income.n * 19732, income.d * 100000)
            configured == "solo_401k_contribution" \in DOMAIN personal
            policy == IF configured THEN personal.solo_401k_contribution ELSE None
            text == IF configured /\ policy.t = "str" THEN {policy.s} ELSE {}
            number == IF configured /\ policy.t = "num" THEN {policy.x}
                      ELSE IF configured /\ policy.t = "bool"
                           THEN {IF policy.b THEN Num(1) ELSE Zero}
                      ELSE {}
            got == call.ret.v
        IN  /\ call.ret.kind = "value"
            /\ (~configured \/ text = {"maximize"}) => got = max_contribution
            /\ (text = {"none"} \/ number = {Zero}) => got = Zero
            /\ \A p \in number \ {Zero} :
                   got = Frac(max_contribution.n * p.n, max_contribution.d * p.d * 100)
            /\ (configured /\ number = {} /\ text \cap {"maximize", "none"} = {}) =>
                   got = max_contribution
            /\ (income = Num(100000) /\ text = {"maximize"}) => got = Num(19732)
            /\ (income = Num(100000) /\ number = {Num(50)}) => got = Num(9866)
            /\ (income = Num(100000) /\ text = {"none"}) => got = Zero

\* C5 witness: policy 50 on 100000 gives 9866.
C5_Witness ==
    /\ call.fn = "compute_solo_401k_contribution"
    /\ Get(personal, "solo_401k_contribution", None) = PyNum(Num(50))
    /\ call.net_business_income = Num(100000)
    /\ call.ret = Returned(Num(9866))

----------------------------------------------------------------------------
(* Claims about compute_interest (SpecInterest).                           *)

\* The key str(year) of the years tried.
YearKey(y) == CASE y = 2023 -> "2023" [] y = 2024 -> "2024" [] y = 2025 -> "2025"

\* The interest accrued from month st.k to month last, added to st.total: each
\* month the interest is the rate times the balance at the start of the month, and
\* the balance then grows by that interest and drops by the payment.
RECURSIVE InterestOfMonths(_, _, _, _, _)
InterestOfMonths(st, first, last, rate, payment) ==
    IF st.k > last
    THEN st.total
    ELSE LET interest == Times(rate, st.balance)
         IN  InterestOfMonths(
                 [k |-> st.k + 1,
                  balance |-> Minus(Plus(st.balance, interest), payment),
                  total |-> IF st.k >= first THEN Plus(st.total, interest) ELSE st.total],
                 first, last, rate, payment)

\* C9: compute_interest takes the first source that matches: (1) the override map's
\* entry for str(year), without consulting the ledger; (2) else, with an interest
\* account configured, the ledger balance of that account for the year, also when
\* the amortization parameters are configured; (3) else, with principal,
\* monthly_rate, payment and start_year all configured, the amortization interest
\* of months [start_month, start_month + 12), start_month = max(0, 12 * (year -
\* start_year)); (4) else 0.
C9_InterestSourceOrder ==
    call.fn = "compute_interest" =>
        LET y == call.year
            got == call.ret.v
            overridden == /\ "interest_by_year" \in DOMAIN personal
                          /\ PyStr(YearKey(y)) \in DOMAIN personal.interest_by_year
            account == "interest_account" \in DOMAIN personal
            amortized == {"principal", "monthly_rate", "payment", "start_year"}
                             \subseteq DOMAIN personal
            key == [args |-> <<"bal", personal.interest_account>>, year |-> <<y>>]
            cached == journal \in DOMAIN cache /\ key \in DOMAIN cache[journal]
            since == 12 * (y - personal.start_year.n)
            start_month == IF since > 0 THEN since ELSE 0
        IN  /\ call.ret.kind = "value"
            /\ overridden =>
                   /\ got = personal.interest_by_year[PyStr(YearKey(y))]
                   /\ call.query = << >>
            /\ (~overridden /\ account) =>
                   /\ Len(call.query) = 1
                   /\ call.query[1].cmd =
                          <<"hledger", "bal", "-p", YearKey(y), "bal",
                            personal.interest_account, "-1">>
                   /\ IF call.query[1].failed
                      THEN got = Zero /\ ~cached
                      ELSE cached /\ got = cache[journal][key]
            /\ (~overridden /\ ~account /\ amortized) =>
                   /\ got = InterestOfMonths(
                                [k |-> 0, balance |-> personal.principal, total |-> Zero],
                                start_month, start_month + 11,
                                personal.monthly_rate, personal.payment)
                   /\ call.query = << >>
            /\ (~overridden /\ ~account /\ ~amortized) =>
                   got = Zero /\ call.query = << >>

\* C9 witness: no override for the year, an interest account and all four
\* amortization parameters configured: the ledger's 1200 is returned.
C9_Witness ==
    /\ call.fn = "compute_interest"
    /\ call.year = 2025
    /\ "interest_by_year" \in DOMAIN personal
    /\ DOMAIN personal.interest_by_year = {PyStr("2024")}
    /\ {"interest_account", "principal", "monthly_rate", "payment", "start_year"}
           \subseteq DOMAIN personal
    /\ personal.monthly_rate = Num(1)
    /\ call.query # << >> /\ call.query[1].ran
    /\ call.ret = Returned(Num(1200))

\* C9 second witness, kept with the first: the amortization source in the loan's
\* second year.
C9_AmortizationReached ==
    /\ call.fn = "compute_interest"
    /\ call.year = 2025
    /\ "interest_account" \notin DOMAIN personal
    /\ Get(personal, "monthly_rate", None) = Num(1)
    /\ call.ret = Returned(Num(16773144))

----------------------------------------------------------------------------
(* Claims about failed ledger queries (SpecLedger).                        *)

\* The last ledger command failed.
FailedQuery == call.fn = "run_hledger_command" /\ call.failed

\* The cache file holds a result for the last query.
LastQueryCached ==
    /\ call.journal_hash \in DOMAIN cache
    /\ call.key \in DOMAIN cache[call.journal_hash]

DividendAccount == <<"income:dividend_shortterm">>

\* The number of queries of the running compute_taxes.
PlanLength ==
    Len(query_plan(locals.year, load_home_office_info(personal), LedgerAliases))

\* C10: when the hledger command exits non-zero, run_hledger_command returns 0.0
\* and compute_taxes is not aborted; the cache file is left as it was and holds no
\* result for the query; an identical query that follows (same arguments, year
\* and journal fingerprint) runs the command again; and the run goes on to its
\* summary: it always has a next query to make, every step moves it to the next
\* query, the summary comes after the last query and is printed.
C10_FailedQueryIsZeroAndNotCached ==
    /\ [](FailedQuery =>
            /\ call.ret = Returned(Zero)
            /\ ~LastQueryCached
            /\ pc \in {"query", "summary", "done"})
    /\ [][FailedQuery' => cache' = cache]_vars
    /\ [][(/\ FailedQuery
            /\ call'.fn = "run_hledger_command"
            /\ call'.key = call.key
            /\ call'.journal_hash = call.journal_hash) => call'.ran]_vars
    /\ [](pc = "query" => locals.next \in 1..PlanLength)
    /\ [][pc = "query" =>
            /\ locals'.next = locals.next + 1
            /\ pc' = IF locals.next = PlanLength THEN "summary" ELSE "query"]_vars
    /\ [][pc = "summary" => pc' = "done" /\ report' # << >>]_vars

\* A summary is printed for a run in which the dividend_shortterm query failed
\* and counted as 0.0, and the identical dividend_shortterm_state query that
\* followed was not served that 0.0: it ran the command and got its total.
C10_Witness ==
    /\ pc = "done"
    /\ report # << >>
    /\ failures = 1
    /\ hledger_query("dividend_shortterm", LedgerAliases, report.year)
           = hledger_query("dividend_shortterm_state", LedgerAliases, report.year)
    /\ report.a["dividend_shortterm"] = Zero
    /\ report.a["dividend_shortterm_state"] = Num(2000000)
    /\ cache_key(DividendAccount, <<report.year>>) \in DOMAIN cache[journal]

----------------------------------------------------------------------------
(* Claims about the summary compute_taxes computes and prints              *)
(* (SpecSummary).                                                          *)

\* The summary of the run is printed.
SummaryPrinted == pc = "done" /\ report # << >>

\* What the summary's total is made of, apart from Social Security: the bracket
\* tax of the federal taxable income, 20% of the long-term dividends and gains,
\* the NIIT, the self-employment tax and the Medicare extra.
OtherThanSocialSecurity ==
    LET a == report.a
        s == report.summary
    IN  SumSeq(<<compute_bracket_tax(s.fed_taxable_income, locals.fed_params["brackets"]),
                 Times(Frac(2, 10), Plus(a.dividend_longterm, a.capital_gain_longterm)),
                 s.inv_tax, s.se_tax, s.medicare_extra>>)

\* The value compute_social_security_tax returns for the run.
SocialSecurityReturn ==
    compute_social_security_tax(report.a.w2_medicare, report.summary.net_biz,
                                locals.fed_params["ss_max"], report.a.soc_tax_paid, personal)

\* C11: total tax due is max(0, bracket tax + 0.2 * (long-term dividends +
\* long-term gains) + NIIT - ss_return + self-employment tax + Medicare extra),
\* ss_return being what compute_social_security_tax returns; it is never negative;
\* a Social Security shortfall (ss_return < 0) on top of a non-negative rest adds
\* exactly the shortfall; and federal owed is total tax due - federal tax paid -
\* foreign tax credit.
C11_TotalTaxDue ==
    SummaryPrinted =>
        LET s == report.summary
            shortfall == Neg(SocialSecurityReturn)
        IN  /\ s.ss_extra = SocialSecurityReturn
            /\ s.total_tax = Max2(Zero, Minus(OtherThanSocialSecurity, SocialSecurityReturn))
            /\ LessEq(Zero, s.total_tax)
            /\ (Less(Zero, shortfall) /\ LessEq(Zero, OtherThanSocialSecurity)) =>
                   s.total_tax = Plus(OtherThanSocialSecurity, shortfall)
            /\ s.owed = Minus(Minus(s.total_tax, report.a.fed_tax_paid),
                              report.a.foreign_credit)

\* A summary with long-term dividends and gains, NIIT, self-employment tax, a
\* Social Security shortfall, federal tax paid and a foreign credit.
C11_Witness ==
    /\ SummaryPrinted
    /\ Less(Zero, Neg(SocialSecurityReturn))
    /\ Less(Zero, report.summary.inv_tax)
    /\ Less(Zero, report.summary.se_tax)
    /\ Less(Zero, report.a.dividend_longterm)
    /\ Less(Zero, report.a.capital_gain_longterm)
    /\ Less(Zero, report.a.fed_tax_paid)
    /\ Less(Zero, report.a.foreign_credit)
    /\ report.summary.total_tax = Plus(OtherThanSocialSecurity, Neg(SocialSecurityReturn))

\* A summary whose total is floored at 0: the Social Security paid exceeds all
\* that is due.
C11_FlooredReached ==
    /\ SummaryPrinted
    /\ report.summary.total_tax = Zero
    /\ Less(Minus(OtherThanSocialSecurity, SocialSecurityReturn), Zero)

\* The surcharge rules of the resolved federal entry: fed_params.get('surcharges', [])
FederalSurcharges == Get(locals.fed_params, "surcharges", PyList(<< >>))

\* The total of the run, had the federal entry no surcharge rules.
TotalWithoutFederalSurcharges ==
    LET plain == [k \in DOMAIN locals.fed_params \ {"surcharges"} |-> locals.fed_params[k]]
    IN  tax_summary(report.a, locals.INTEREST, plain, locals.ca_params,
                    load_home_office_info(personal),
                    load_additional_federal_deduction(personal), personal, federal).total_tax

\* Some federal surcharge rule with a positive rate has its threshold below the
\* federal taxable income.
AboveFederalSurcharge ==
    \E i \in 1..Len(surcharges_or_empty(FederalSurcharges)) :
        LET rule == surcharges_or_empty(FederalSurcharges)[i]
        IN  /\ Less(Zero, Get(rule, "rate", Zero))
            /\ Less(Get(rule, "threshold", Zero), report.summary.fed_taxable_income)

\* C12: the surcharges apply to both computations: CA owed is the CA bracket tax
\* plus compute_surcharges(CA income, CA surcharges) minus the state tax paid;
\* the federal total tax due includes compute_surcharges(federal taxable income,
\* federal surcharges); and with the income above a federal rule's threshold a
\* total above 0 is not what it would be without the federal rules.
C12_FederalSurchargesApplied ==
    SummaryPrinted =>
        LET s == report.summary
        IN  /\ s.ca_owed =
                   Minus(Plus(compute_surcharges(s.ca_mod_inc,
                                  Get(locals.ca_params, "surcharges", PyList(<< >>))),
                              s.ca_tax),
                         report.a.state_tax_paid)
            /\ s.total_tax =
                   Max2(Zero, Plus(Minus(OtherThanSocialSecurity, SocialSecurityReturn),
                                   compute_surcharges(s.fed_taxable_income,
                                                      FederalSurcharges)))
            /\ (AboveFederalSurcharge /\ Less(Zero, s.total_tax)) =>
                   s.total_tax # TotalWithoutFederalSurcharges

\* C13: the printed numbers are the values computed and used, to the cent: the
\* "Line 15" printed is the federal taxable income that went into
\* compute_bracket_tax for the "Final tax bill" printed, and the totals and the
\* amounts owed printed are those computed.
C13_PrintedMatchesComputed ==
    SummaryPrinted =>
        LET s == report.summary
            p == report.printed
        IN  /\ p.Line_15 = Cents(s.fed_taxable_income)
            /\ p.Final_tax_bill =
                   Cents(Plus(compute_bracket_tax(s.fed_taxable_income,
                                                  locals.fed_params["brackets"]),
                              Times(Frac(2, 10), Plus(report.a.dividend_longterm,
                                                      report.a.capital_gain_longterm))))
            /\ p.Net_Business_Income_Line_8 = Cents(s.net_biz)
            /\ p.Self_Employment_Tax = Cents(s.se_tax)
            /\ p.Investment_Tax_NIIT = Cents(s.inv_tax)
            /\ p.Extra_Social_Security_Tax = Cents(s.ss_extra)
            /\ p.Extra_Medicare_Tax = Cents(s.medicare_extra)
            /\ p.Total_Tax_Due = Cents(s.total_tax)
            /\ p.Total_Federal_Owed = Cents(s.owed)
            /\ p.Total_CA_Owed = Cents(s.ca_owed)
            /\ p.Max_Solo_401k_Contribution = Cents(s.solo_cont)

====
